---- MODULE Spec2Model ----
(***************************************************************************)
(* A model of the trading toolkit: the paginated history fetcher           *)
(* (src/src/data_retriever.py), the breakout signal detector               *)
(* (src/src/signal_detector.py) next to the backtest strategy it mirrors   *)
(* (src/src/strategies/donchian_breakout.py), the scheduled callers        *)
(* (src/run_daily.py, src/close_position.py) and the CSV storage           *)
(* (src/src/data_storage.py).                                              *)
(*                                                                         *)
(* Time.  An integer t stands for the instant 5*(t \div 2) seconds plus    *)
(* (t % 2) half seconds after an epoch: even values are whole multiples of *)
(* five seconds, odd values carry a sub-second part.  Every bar duration   *)
(* of GRANULARITY_SECONDS is a multiple of five seconds, so timedelta is   *)
(* exact on this grid, and strftime("%Y-%m-%dT%H:%M:%S.000000000Z"), which *)
(* prints the wall clock down to the second, is the floor to an even       *)
(* value.  A datetime is [wall, off]: the wall-clock reading and its UTC   *)
(* offset; the instant it denotes is wall - off.                           *)
(***************************************************************************)
EXTENDS Integers, Sequences, FiniteSets, TLC

VARIABLES
    \* ---- inputs of fetch_historical_data and the upstream they run against
    instrument,      \* the instrument argument
    granularity,     \* the granularity argument
    from_date,       \* the from_date argument, an ISO 8601 string: [wall, tz]
    to_date,         \* the to_date argument
    price_type,      \* the price_type argument
    listing,         \* the upstream's answer to get_instruments: [ok, names]
    windowed,        \* TRUE: the upstream only returns candles inside the
                     \* window a request names
    unchanged,       \* the upstream has answered equal requests equally so far
    argsort_ties,    \* how the build's quicksort leaves rows of equal time
    answers,         \* what the upstream answered to each candle request so far
    served,          \* number of candles the upstream has handed out
    \* ---- state of one fetch_historical_data call
    pc,              \* "validate", "paginate" or "done"
    current_from,    \* the pagination cursor
    all_candles,     \* the candles accumulated over the pages
    request_count,   \* number of non-empty pages so far
    requests,        \* log of the upstream requests of this call, with outcome
    outcome,         \* "none", "ok", "ValueError" or "RequestException"
    df,              \* the series the call returns
    \* ---- the first call, kept while the same call is made again
    run,             \* 1 or 2
    first_requests,
    first_outcome,
    first_df,
    \* ---- detect_signal: its arguments, its locals and what it returned
    bars,            \* the df argument: rows of [high, low, close], oldest first
    dc_period,       \* the dc_period argument
    atr_period,      \* the atr_period argument
    last_upper,      \* upper.iloc[-1]
    last_lower,      \* lower.iloc[-1]
    last_atr,        \* atr.iloc[-1]
    signal,          \* the outcome of the call: a signal, None or an exception
    \* ---- DonchianBreakout, run over the same series
    position,        \* self.position: a trade is open when next is called
    order,           \* what next did on the last bar: an order, nothing or an error
    \* ---- the scheduled callers: run_daily.main, close_position.main and
    \* ---- fetch_multiple_instruments
    caller,          \* which of the three is running
    instruments,     \* the instrument list it was given
    dry_run,         \* args.dry_run
    balance,         \* float(account['balance']), read at start-up
    open_instruments,\* the instruments get_open_positions reported
    job_pc,          \* "start", "loop", "done" or "crashed"
    processed,       \* one entry per loop iteration made so far
    broker,          \* the calls made on the client, oldest first
    \* ---- DataStorage
    files,           \* the file system: the lines of every file, by path
    last,            \* the latest save_to_csv or append_to_existing call
    \* ---- utils/position_sizing.py
    sizing,          \* the latest calculate_position_size call
    conversion,      \* the latest pips_to_price or price_to_pips call
    \* ---- strategies/rsi_mean_reversion.py, strategies/vwap_hma_crossover.py
    backtest,        \* a Backtest(df, RSIMeanReversionMTF).run()
    eod              \* the latest VWAPHMACrossover._should_close_eod call

fetch_vars ==
    << instrument, granularity, from_date, to_date, price_type, listing,
       windowed, unchanged, argsort_ties, answers, served, pc, current_from,
       all_candles, request_count, requests, outcome, df, run, first_requests,
       first_outcome, first_df >>

detect_vars ==
    << bars, dc_period, atr_period, last_upper, last_lower, last_atr, signal,
       position, order >>

job_vars ==
    << caller, instruments, dry_run, balance, open_instruments, job_pc,
       processed, broker >>

store_vars == << files, last >>

lib_vars == << sizing, conversion >>
strat_vars == << backtest, eod >>

vars == << fetch_vars, detect_vars, job_vars, store_vars, lib_vars, strat_vars >>

----------------------------------------------------------------------------
(* Bounds of the model *)

\* candle requests one call may issue before the model stops following it
MaxRequests == 3
\* latest time on the time grid that a date argument or a candle may carry
MaxTime == 4
\* longest series handed to detect_signal
MaxBars == 3
\* longest instrument list a scheduled caller is given
MaxInstruments == 3
\* most data rows a stored file is followed to
MaxRows == 2

\* page limit of the upstream and of the pagination arithmetic
\* (5000 in the source; scaled down so that several pages fit the time range)
max_candles == 2

----------------------------------------------------------------------------
(* HistoricalDataRetriever: constants *)

GRANULARITIES ==
    { "S5", "S10", "S15", "S30", "M1", "M2", "M4", "M5", "M10", "M15", "M30",
      "H1", "H2", "H3", "H4", "H6", "H8", "H12", "D", "W", "M" }

GRANULARITY_SECONDS ==
    [ g \in GRANULARITIES |->
        CASE g = "S5"  -> 5      [] g = "S10" -> 10     [] g = "S15" -> 15
          [] g = "S30" -> 30     [] g = "M1"  -> 60     [] g = "M2"  -> 120
          [] g = "M4"  -> 240    [] g = "M5"  -> 300    [] g = "M10" -> 600
          [] g = "M15" -> 900    [] g = "M30" -> 1800   [] g = "H1"  -> 3600
          [] g = "H2"  -> 7200   [] g = "H3"  -> 10800  [] g = "H4"  -> 14400
          [] g = "H6"  -> 21600  [] g = "H8"  -> 28800  [] g = "H12" -> 43200
          [] g = "D"   -> 86400  [] g = "W"   -> 604800
          [] OTHER     -> 2592000 ]

----------------------------------------------------------------------------
(* datetime arithmetic *)

\* the instant a datetime denotes; aware datetimes compare by instant
utc(dt) == dt.wall - dt.off

\* timedelta(seconds=s), s a multiple of five seconds
timedelta(s) == (s \div 5) * 2

\* dt.strftime("%Y-%m-%dT%H:%M:%S.000000000Z"): the wall clock, cut to the
\* second, followed by a literal Z; the offset is not applied
strftime(dt) == (dt.wall \div 2) * 2

\* the UTC offset an ISO 8601 string states, on the time grid; a naive string
\* (and a bare YYYY-MM-DD) states none
TzOffset(tz) ==
    CASE tz = "+00:00:05" -> 2
      [] tz = "-00:00:05" -> -2
      [] OTHER -> 0

\* _parse_date: an ISO 8601 string with an offset keeps it, a naive one is
\* localized to UTC
_parse_date(s) == [wall |-> s.wall, off |-> TzOffset(s.tz)]

\* datetime.fromisoformat(time.replace("Z", "+00:00")) of a candle time
fromisoformat(t) == [wall |-> t, off |-> 0]

\* min(a, b) of Python: the first argument unless the second is smaller
min(a, b) == IF utc(b) < utc(a) THEN b ELSE a

----------------------------------------------------------------------------
(* _candles_to_dataframe *)

\* position of row i in df.sort_values("time"): ascending time; rows of equal
\* time stay in input order under a stable sort, and the default quicksort
\* promises no order among them
SortRank(s, i, ties) ==
    1 + Cardinality({ j \in 1..Len(s) :
            \/ s[j].time < s[i].time
            \/ /\ s[j].time = s[i].time
               /\ IF ties = "input_order" THEN j < i ELSE j > i })

\* a sort whose order among equal times differs from one call to the next
sort_values_unsettled(s, ties) ==
    LET t == IF run = 1 THEN "input_order" ELSE "reversed"
    IN [ k \in 1..Len(s) |-> s[CHOOSE i \in 1..Len(s) : SortRank(s, i, t) = k] ]

sort_values(s, ties) ==
    [ k \in 1..Len(s) |-> s[CHOOSE i \in 1..Len(s) : SortRank(s, i, ties) = k] ]

\* a de-duplication that drops nothing
drop_duplicates_keep_all(s) == s

RECURSIVE drop_duplicates(_)
\* df.drop_duplicates(subset=["time"], keep="last")
drop_duplicates(s) ==
    IF s = << >> THEN << >>
    ELSE IF \E j \in 2..Len(s) : s[j].time = s[1].time
         THEN drop_duplicates(Tail(s))
         ELSE << s[1] >> \o drop_duplicates(Tail(s))

_candles_to_dataframe(candles, ties) ==
    IF candles = << >> THEN << >>
    ELSE drop_duplicates(sort_values(candles, ties))

----------------------------------------------------------------------------
(* The upstream *)

Instruments == { "EUR_USD", "XAU_XAG" }
GranularityArgs == { "S5", "X5" }
TzStrings == { "", "+00:00:05", "-00:00:05" }
FromDates == { [wall |-> w, tz |-> z] : w \in 0..1, z \in TzStrings }
ToDates == { [wall |-> w, tz |-> z] : w \in {1, MaxTime, MaxTime + 1}, z \in TzStrings }
Listings ==
    { [ok |-> FALSE, names |-> {}], [ok |-> TRUE, names |-> {"EUR_USD", "GBP_USD"}] }

\* candle times of an upstream that aligns its candles to the bar grid
CandleTimes == { t \in 0..MaxTime : t % 2 = 0 }

\* the pages the upstream may answer a request with, as sequences of candle
\* times: at most max_candles candles, in any order, repeats included; a
\* windowed upstream keeps to [from, to)
PageTimes(params) ==
    LET times == IF windowed THEN { t \in 0..MaxTime : params.from <= t /\ t < params.to }
                 ELSE CandleTimes
    IN UNION { [1..n -> times] : n \in 0..max_candles }

\* the candles of a page: each carries its time and its own content, told
\* apart by a serial number
Page(times, base) ==
    [ k \in 1..Len(times) |-> [time |-> times[k], id |-> base + k] ]

\* the answers the upstream may give to a candle request: a transport or
\* status error, a page, or what it answered to the same request before; in
\* the repeated call the upstream is the unchanged one, and repeats itself
Responses(params) ==
    LET fresh == { [ok |-> FALSE, candles |-> << >>] }
                 \cup { [ok |-> TRUE, candles |-> Page(t, served)] : t \in PageTimes(params) }
    IN IF params \in DOMAIN answers
       THEN IF run = 2 THEN { answers[params] } ELSE fresh \cup { answers[params] }
       ELSE fresh

Answered(params, resp) ==
    /\ answers' = [ p \in DOMAIN answers \cup {params} |->
                      IF p = params THEN resp ELSE answers[p] ]
    /\ served' = IF params \in DOMAIN answers /\ resp = answers[params]
                 THEN served ELSE served + Len(resp.candles)
    /\ unchanged' = (unchanged /\ (params \in DOMAIN answers => resp = answers[params]))

----------------------------------------------------------------------------
(* detect_signal (src/src/signal_detector.py)                              *)
(*                                                                         *)
(* Prices are whole numbers of a small price unit.  A float is             *)
(* [nan, num, den] with den > 0: NaN, or the rational num/den.  Rounding   *)
(* of binary floating point is not modelled.                               *)

NaN == [nan |-> TRUE, num |-> 0, den |-> 1]
Float(x) == [nan |-> FALSE, num |-> x, den |-> 1]

Less(a, b) == a.num * b.den < b.num * a.den

SetMax(S) == CHOOSE x \in S : \A y \in S : y <= x
SetMin(S) == CHOOSE x \in S : \A y \in S : x <= y
Abs(x) == IF x < 0 THEN -x ELSE x

RECURSIVE Pow(_, _)
Pow(b, e) == IF e = 0 THEN 1 ELSE b * Pow(b, e - 1)

RECURSIVE Sum(_, _, _)
\* f[lo] + ... + f[hi]
Sum(f, lo, hi) == IF lo > hi THEN 0 ELSE f[lo] + Sum(f, lo + 1, hi)

\* the argument defaults of detect_signal
sl_atr_mult == 2
min_channel_pct == [nan |-> FALSE, num |-> 2, den |-> 1000]

\* df['high'], df['low'], df['close']
Column(b, name) ==
    [ i \in 1..Len(b) |->
        Float(CASE name = "high" -> b[i].high
                [] name = "low" -> b[i].low
                [] OTHER -> b[i].close) ]

\* Series.shift(1)
shift(s) == [ i \in 1..Len(s) |-> IF i = 1 THEN NaN ELSE s[i - 1] ]

\* a window that is not full of numbers gives NaN (min_periods = window)
WindowDefined(s, i, period) ==
    /\ i >= period
    /\ \A j \in (i - period + 1)..i : ~s[j].nan

\* Series.rolling(period).max() and .min(), over whole-number series
rolling_max(s, period) ==
    [ i \in 1..Len(s) |->
        IF WindowDefined(s, i, period)
        THEN Float(SetMax({ s[j].num : j \in (i - period + 1)..i }))
        ELSE NaN ]

rolling_min(s, period) ==
    [ i \in 1..Len(s) |->
        IF WindowDefined(s, i, period)
        THEN Float(SetMin({ s[j].num : j \in (i - period + 1)..i }))
        ELSE NaN ]

\* a channel that looks at the current bar too
rolling_high_unshifted(b, period) == rolling_max(Column(b, "high"), period)

\* line 37: high.shift(1).rolling(dc_period).max()
rolling_high(b, period) == rolling_max(shift(Column(b, "high")), period)

\* line 38: low.shift(1).rolling(dc_period).min()
rolling_low(b, period) == rolling_min(shift(Column(b, "low")), period)

\* a true range that ignores the gap from the previous close
true_range_bar_only(b) ==
    [ i \in 1..Len(b) |->
        IF i = 1 THEN NaN ELSE Float(b[i].high - b[i].low) ]

\* pandas_ta.true_range: the largest of high - low, |high - previous close|
\* and |previous close - low|; undefined on the first bar
true_range(b) ==
    [ i \in 1..Len(b) |->
        IF i = 1 THEN NaN
        ELSE Float(SetMax({ b[i].high - b[i].low,
                            Abs(b[i].high - b[i - 1].close),
                            Abs(b[i - 1].close - b[i].low) })) ]

\* pandas_ta.rma: tr.ewm(alpha=1/length, min_periods=length).mean(); the
\* weights (1 - alpha)^k are scaled by length^(i - 2) to stay whole
rma(tr, length) ==
    [ i \in 1..Len(tr) |->
        IF i - 1 < length THEN NaN
        ELSE LET w == [ k \in 0..(i - 2) |-> Pow(length - 1, k) * Pow(length, i - 2 - k) ]
                 wx == [ k \in 0..(i - 2) |-> w[k] * tr[i - k].num ]
             IN [nan |-> FALSE, num |-> Sum(wx, 0, i - 2), den |-> Sum(w, 0, i - 2)] ]

\* line 39: ta.atr(high, low, close, length): None for a series shorter than
\* length, else the smoothed true range
atr(b, length) ==
    IF Len(b) < length
    THEN [none |-> TRUE, values |-> << >>]
    ELSE [none |-> FALSE, values |-> rma(true_range(b), length)]

NoValue == [side |-> "", sl_dist |-> NaN, entry_price |-> NaN]

\* a decision in which a close on the channel's edge already breaks out
Decide_ties(last_up, last_lo, last_a, last_close) ==
    LET sl_dist == [last_a EXCEPT !.num = @ * sl_atr_mult]
    IN IF ~Less(last_close, last_up)
       THEN [status |-> "signal", side |-> "buy", sl_dist |-> sl_dist,
             entry_price |-> last_close]
       ELSE IF ~Less(last_lo, last_close)
       THEN [status |-> "signal", side |-> "sell", sl_dist |-> sl_dist,
             entry_price |-> last_close]
       ELSE [status |-> "None"] @@ NoValue

\* lines 52-59: the decision taken on the last bar's values
Decide(last_up, last_lo, last_a, last_close) ==
    LET sl_dist == [last_a EXCEPT !.num = @ * sl_atr_mult]
    IN IF Less(last_up, last_close)
       THEN [status |-> "signal", side |-> "buy", sl_dist |-> sl_dist,
             entry_price |-> last_close]
       ELSE IF Less(last_close, last_lo)
       THEN [status |-> "signal", side |-> "sell", sl_dist |-> sl_dist,
             entry_price |-> last_close]
       ELSE [status |-> "None"] @@ NoValue

\* a detector that takes the breakout the wrong way round
detect_signal_reversed(b, dc, length) ==
    LET n == Len(b)
        upper == rolling_high(b, dc)
        lower == rolling_low(b, dc)
        a == atr(b, length)
        up == IF n = 0 THEN NaN ELSE upper[n]
        lo == IF n = 0 THEN NaN ELSE lower[n]
        at == IF n = 0 \/ a.none THEN NaN ELSE a.values[n]
        last_close == Float(b[n].close)
        width == [nan |-> FALSE, num |-> up.num - lo.num, den |-> last_close.num]
        d == Decide(up, lo, at, last_close)
        result ==
            IF n = 0 THEN [status |-> "IndexError"] @@ NoValue
            ELSE IF a.none THEN [status |-> "AttributeError"] @@ NoValue
            ELSE IF up.nan \/ at.nan THEN [status |-> "None"] @@ NoValue
            ELSE IF Less(width, min_channel_pct) THEN [status |-> "None"] @@ NoValue
            ELSE IF d.side = "buy" THEN [d EXCEPT !.side = "sell"]
            ELSE IF d.side = "sell" THEN [d EXCEPT !.side = "buy"]
            ELSE d
    IN [result |-> result, last_upper |-> up, last_lower |-> lo, last_atr |-> at]

\* a detector without the channel-width filter
detect_signal_unfiltered(b, dc, length) ==
    LET n == Len(b)
        upper == rolling_high(b, dc)
        lower == rolling_low(b, dc)
        a == atr(b, length)
        up == IF n = 0 THEN NaN ELSE upper[n]
        lo == IF n = 0 THEN NaN ELSE lower[n]
        at == IF n = 0 \/ a.none THEN NaN ELSE a.values[n]
        last_close == Float(b[n].close)
        result ==
            IF n = 0 THEN [status |-> "IndexError"] @@ NoValue
            ELSE IF a.none THEN [status |-> "AttributeError"] @@ NoValue
            ELSE IF up.nan \/ at.nan THEN [status |-> "None"] @@ NoValue
            ELSE Decide(up, lo, at, last_close)
    IN [result |-> result, last_upper |-> up, last_lower |-> lo, last_atr |-> at]

\* lines 33-59: what the call returns or raises, with the values its locals
\* last_upper, last_lower and last_atr took (NaN where their line is not
\* reached)
detect_signal(b, dc, length) ==
    LET n == Len(b)
        upper == rolling_high(b, dc)
        lower == rolling_low(b, dc)
        a == atr(b, length)
        up == IF n = 0 THEN NaN ELSE upper[n]
        lo == IF n = 0 THEN NaN ELSE lower[n]
        at == IF n = 0 \/ a.none THEN NaN ELSE a.values[n]
        last_close == Float(b[n].close)
        width == [nan |-> FALSE, num |-> up.num - lo.num, den |-> last_close.num]
        result ==
            IF n = 0 THEN [status |-> "IndexError"] @@ NoValue
            ELSE IF a.none THEN [status |-> "AttributeError"] @@ NoValue
            ELSE IF up.nan \/ at.nan THEN [status |-> "None"] @@ NoValue
            ELSE IF Less(width, min_channel_pct) THEN [status |-> "None"] @@ NoValue
            ELSE Decide(up, lo, at, last_close)
    IN [result |-> result, last_upper |-> up, last_lower |-> lo, last_atr |-> at]

----------------------------------------------------------------------------
(* DonchianBreakout (src/src/strategies/donchian_breakout.py)              *)

\* the class attribute risk_reward
risk_reward == 2

\* a - b and a + k * b on floats
Minus(a, b) == [nan |-> FALSE, num |-> a.num * b.den - b.num * a.den, den |-> a.den * b.den]
PlusTimes(a, k, b) ==
    [nan |-> FALSE, num |-> a.num * b.den + k * b.num * a.den, den |-> a.den * b.den]
Equal(a, b) == a.nan = b.nan /\ (~a.nan => a.num * b.den = b.num * a.den)

NoOrder == [sl |-> NaN, tp |-> NaN]
NotRun == [status |-> "not run"] @@ NoOrder

\* lines 62-77: the indicators over the whole data; an indicator function
\* that returns None makes self.I raise
init(b, dc, length) ==
    [dc_upper |-> rolling_max(shift(Column(b, "high")), dc),
     dc_lower |-> rolling_min(shift(Column(b, "low")), dc),
     atr |-> atr(b, length)]

\* a strategy without the volatility filter
next_unfiltered(b, dc, length, pos) ==
    LET n == Len(b)
        self == init(b, dc, length)
        price == Float(b[n].close)
        up == self.dc_upper[n]
        lo == self.dc_lower[n]
        sl_dist == [self.atr.values[n] EXCEPT !.num = @ * sl_atr_mult]
    IN IF n = 0 \/ self.atr.none THEN [status |-> "ValueError"] @@ NoOrder
       ELSE IF up.nan \/ self.atr.values[n].nan THEN [status |-> "none"] @@ NoOrder
       ELSE IF pos THEN [status |-> "none"] @@ NoOrder
       ELSE IF Less(up, price)
       THEN [status |-> "buy", sl |-> Minus(price, sl_dist),
             tp |-> PlusTimes(price, risk_reward, sl_dist)]
       ELSE IF Less(price, lo)
       THEN [status |-> "sell", sl |-> PlusTimes(price, 1, sl_dist),
             tp |-> PlusTimes(price, -risk_reward, sl_dist)]
       ELSE [status |-> "none"] @@ NoOrder

\* lines 79-102: next on the last bar of the data b
next(b, dc, length, pos) ==
    LET n == Len(b)
        self == init(b, dc, length)
        price == Float(b[n].close)
        up == self.dc_upper[n]
        lo == self.dc_lower[n]
        width == [nan |-> FALSE, num |-> up.num - lo.num, den |-> price.num]
        sl_dist == [self.atr.values[n] EXCEPT !.num = @ * sl_atr_mult]
    IN IF n = 0 \/ self.atr.none THEN [status |-> "ValueError"] @@ NoOrder
       ELSE IF up.nan \/ self.atr.values[n].nan THEN [status |-> "none"] @@ NoOrder
       ELSE IF pos THEN [status |-> "none"] @@ NoOrder
       ELSE IF Less(width, min_channel_pct) THEN [status |-> "none"] @@ NoOrder
       ELSE IF Less(up, price)
       THEN [status |-> "buy", sl |-> Minus(price, sl_dist),
             tp |-> PlusTimes(price, risk_reward, sl_dist)]
       ELSE IF Less(price, lo)
       THEN [status |-> "sell", sl |-> PlusTimes(price, 1, sl_dist),
             tp |-> PlusTimes(price, -risk_reward, sl_dist)]
       ELSE [status |-> "none"] @@ NoOrder

\* price levels: two neighbouring levels are further apart than
\* min_channel_pct of any of them, so a channel is either flat (narrower than
\* the filter allows) or wide enough
Prices == { 997, 1000, 1003 }
Bars ==
    { [high |-> h, low |-> l, close |-> c] :
        h \in Prices, l \in Prices, c \in Prices }
Candles == { b \in Bars : b.low <= b.close /\ b.close <= b.high }
Periods == { 1, 2 }

NotCalled == [status |-> "not called"] @@ NoValue

DetectorIdle ==
    /\ bars = << >>
    /\ dc_period = 1
    /\ atr_period = 1
    /\ last_upper = NaN
    /\ last_lower = NaN
    /\ last_atr = NaN
    /\ signal = NotCalled
    /\ position = FALSE
    /\ order = NotRun

\* no scheduled caller is running
JobIdle ==
    /\ caller = "none"
    /\ instruments = << >>
    /\ dry_run = FALSE
    /\ balance = 0
    /\ open_instruments = {}
    /\ job_pc = "done"
    /\ processed = << >>
    /\ broker = << >>

NoPath == [base |-> "", dir |-> << >>, stem |-> << >>]
NoCall ==
    [op |-> "none", status |-> "none", base |-> "", file_path |-> NoPath,
     written |-> NoPath, before |-> << >>, df |-> << >>, remove_duplicates |-> FALSE]

\* nothing is stored
StorageIdle ==
    /\ files = << >>
    /\ last = NoCall

\* the value None where a float is expected
None == [none |-> TRUE, num |-> 0, den |-> 1]
\* the float num / den, den > 0
Ratio(n, d) == [none |-> FALSE, num |-> n, den |-> d]

NoSizing ==
    [status |-> "not called", account_equity |-> None, risk_percent |-> None,
     stop_loss_pips |-> None, pip_value |-> None, instrument |-> "None",
     result |-> None]

\* no backtest has been started and no strategy method called
NoBacktest ==
    [pc |-> "not run", columns |-> {}, bars |-> 0, i |-> 0, position |-> FALSE,
     pending |-> FALSE, orders |-> << >>, error |-> "None"]
NoEod == [status |-> "not called", weekday |-> 0, hour |-> 0, minute |-> 0,
          result |-> FALSE]
StrategyIdle ==
    /\ backtest = NoBacktest
    /\ eod = NoEod

\* no float: an argument that was not passed, the result of a call that raised
NoFloat == [m |-> -1, e |-> 0]

NoConversion ==
    [status |-> "not called", function |-> "None", instrument |-> "None",
     input |-> NoFloat, output |-> NoFloat, origin |-> NoFloat]

\* no library function has been called
LibIdle ==
    /\ sizing = NoSizing
    /\ conversion = NoConversion

----------------------------------------------------------------------------
(* fetch_historical_data, step by step *)

from_dt == _parse_date(from_date)
to_dt == _parse_date(to_date)

candle_seconds ==
    IF granularity \in DOMAIN GRANULARITY_SECONDS
    THEN GRANULARITY_SECONDS[granularity] ELSE 3600

max_chunk_end ==
    [current_from EXCEPT !.wall = @ + timedelta(candle_seconds * max_candles)]

\* a window that is not cut at to_dt
chunk_end_uncapped == max_chunk_end

\* line 237
chunk_end == min(max_chunk_end, to_dt)

params ==
    [ instrument |-> instrument, granularity |-> granularity,
      from |-> strftime(current_from), to |-> strftime(chunk_end),
      price |-> price_type ]

\* the log entry of a request: what was sent, the window it was made from,
\* how it ended and how many candles it brought
Logged(status) ==
    requests' = Append(requests,
        [params |-> params, status |-> status,
         window |-> [from |-> current_from, to |-> chunk_end],
         count |-> IF status = "page" THEN Len(all_candles') - Len(all_candles) ELSE 0])

inputs == << instrument, granularity, from_date, to_date, price_type, listing,
             windowed, argsort_ties >>
upstream == << answers, served, unchanged >>
first == << run, first_requests, first_outcome, first_df >>

Init ==
    /\ instrument \in Instruments
    /\ granularity \in GranularityArgs
    /\ windowed \in BOOLEAN
    /\ from_date \in FromDates
    /\ to_date \in ToDates
    /\ ~windowed => from_date.tz = "" /\ to_date.tz = ""
    /\ price_type = "M"
    /\ listing \in Listings
    /\ unchanged = TRUE
    /\ argsort_ties \in {"input_order", "reversed"}
    /\ answers = << >>
    /\ served = 0
    /\ pc = "validate"
    /\ current_from = from_dt
    /\ all_candles = << >>
    /\ request_count = 0
    /\ requests = << >>
    /\ outcome = "none"
    /\ df = << >>
    /\ run = 1
    /\ first_requests = << >>
    /\ first_outcome = "none"
    /\ first_df = << >>
    /\ DetectorIdle
    /\ JobIdle
    /\ StorageIdle
    /\ LibIdle
    /\ StrategyIdle

\* the call ends by raising
Raise(error) ==
    /\ pc' = "done"
    /\ outcome' = error
    /\ df' = << >>

\* lines 144-156: the accumulated candles become the returned series
Return(candles) ==
    /\ pc' = "done"
    /\ outcome' = "ok"
    /\ df' = _candles_to_dataframe(candles, argsort_ties)

\* a validation that forgets the instrument check
Validate_any_instrument ==
    /\ pc = "validate"
    /\ IF granularity \notin GRANULARITIES THEN Raise("ValueError")
       ELSE IF ~listing.ok THEN Raise("RequestException")
       ELSE /\ pc' = "paginate"
            /\ UNCHANGED << outcome, df >>
    /\ current_from' = from_dt
    /\ all_candles' = << >>
    /\ request_count' = 0
    /\ UNCHANGED << inputs, upstream, first, requests, detect_vars, job_vars, store_vars, lib_vars, strat_vars >>

\* lines 116-137 and 214-217: validation, then the cursor starts at from_dt
Validate ==
    /\ pc = "validate"
    /\ IF granularity \notin GRANULARITIES THEN Raise("ValueError")
       ELSE IF ~listing.ok THEN Raise("RequestException")
       ELSE IF instrument \notin listing.names THEN Raise("ValueError")
       ELSE /\ pc' = "paginate"
            /\ UNCHANGED << outcome, df >>
    /\ current_from' = from_dt
    /\ all_candles' = << >>
    /\ request_count' = 0
    /\ UNCHANGED << inputs, upstream, first, requests, detect_vars, job_vars, store_vars, lib_vars, strat_vars >>

\* line 229: the loop condition fails on entry
NoRequest ==
    /\ pc = "paginate"
    /\ ~(utc(current_from) < utc(to_dt))
    /\ Return(all_candles)
    /\ UNCHANGED << inputs, upstream, first, current_from, all_candles,
                    request_count, requests, detect_vars, job_vars, store_vars, lib_vars, strat_vars >>

\* a failure handler that swallows the error and returns the pages so far
GetCandlesFails_partial ==
    /\ pc = "paginate"
    /\ utc(current_from) < utc(to_dt)
    /\ Len(requests) < MaxRequests
    /\ \E resp \in Responses(params) :
        /\ ~resp.ok
        /\ Answered(params, resp)
    /\ Logged("error")
    /\ Return(all_candles)
    /\ UNCHANGED << inputs, first, current_from, all_candles, request_count,
                    detect_vars, job_vars, store_vars, lib_vars, strat_vars >>

\* lines 247-248, 277-279: get_candles raises, the error is logged and re-raised
GetCandlesFails ==
    /\ pc = "paginate"
    /\ utc(current_from) < utc(to_dt)
    /\ Len(requests) < MaxRequests
    /\ \E resp \in Responses(params) :
        /\ ~resp.ok
        /\ Answered(params, resp)
    /\ Logged("error")
    /\ Raise("RequestException")
    /\ UNCHANGED << inputs, first, current_from, all_candles, request_count,
                    detect_vars, job_vars, store_vars, lib_vars, strat_vars >>

\* an empty page reported as an error
GetCandlesEmpty_raises ==
    /\ pc = "paginate"
    /\ utc(current_from) < utc(to_dt)
    /\ Len(requests) < MaxRequests
    /\ \E resp \in Responses(params) :
        /\ resp.ok /\ resp.candles = << >>
        /\ Answered(params, resp)
    /\ Logged("empty")
    /\ Raise("ValueError")
    /\ UNCHANGED << inputs, first, current_from, all_candles, request_count,
                    detect_vars, job_vars, store_vars, lib_vars, strat_vars >>

\* lines 249-253: an empty page ends the pagination
GetCandlesEmpty ==
    /\ pc = "paginate"
    /\ utc(current_from) < utc(to_dt)
    /\ Len(requests) < MaxRequests
    /\ \E resp \in Responses(params) :
        /\ resp.ok /\ resp.candles = << >>
        /\ Answered(params, resp)
    /\ Logged("empty")
    /\ Return(all_candles)
    /\ UNCHANGED << inputs, first, current_from, all_candles, request_count,
                    detect_vars, job_vars, store_vars, lib_vars, strat_vars >>

\* a page handler without the stop of lines 273-275
GetCandlesPage_no_short_stop ==
    /\ pc = "paginate"
    /\ utc(current_from) < utc(to_dt)
    /\ Len(requests) < MaxRequests
    /\ \E resp \in Responses(params) :
        /\ resp.ok /\ resp.candles # << >>
        /\ Answered(params, resp)
        /\ LET candles == resp.candles
               last_candle_time == candles[Len(candles)].time
               next_from == [wall |-> fromisoformat(last_candle_time).wall
                                        + timedelta(candle_seconds),
                             off |-> fromisoformat(last_candle_time).off]
           IN /\ all_candles' = all_candles \o candles
              /\ request_count' = request_count + 1
              /\ current_from' = next_from
              /\ IF utc(next_from) >= utc(to_dt)
                 THEN Return(all_candles \o candles)
                 ELSE UNCHANGED << pc, outcome, df >>
    /\ Logged("page")
    /\ UNCHANGED << inputs, first, detect_vars, job_vars, store_vars, lib_vars, strat_vars >>

\* a page handler that moves the cursor onto the last candle, not behind it
GetCandlesPage_stalled ==
    /\ pc = "paginate"
    /\ utc(current_from) < utc(to_dt)
    /\ Len(requests) < MaxRequests
    /\ \E resp \in Responses(params) :
        /\ resp.ok /\ resp.candles # << >>
        /\ Answered(params, resp)
        /\ LET candles == resp.candles
               last_candle_time == candles[Len(candles)].time
               next_from == [wall |-> fromisoformat(last_candle_time).wall,
                             off |-> fromisoformat(last_candle_time).off]
           IN /\ all_candles' = all_candles \o candles
              /\ request_count' = request_count + 1
              /\ current_from' = next_from
              /\ IF utc(next_from) >= utc(to_dt)
                 THEN Return(all_candles \o candles)
                 ELSE IF Len(candles) < max_candles /\ utc(chunk_end) >= utc(to_dt)
                 THEN Return(all_candles \o candles)
                 ELSE UNCHANGED << pc, outcome, df >>
    /\ Logged("page")
    /\ UNCHANGED << inputs, first, detect_vars, job_vars, store_vars, lib_vars, strat_vars >>

\* lines 255-275: a page is appended, the cursor moves behind its last candle
GetCandlesPage ==
    /\ pc = "paginate"
    /\ utc(current_from) < utc(to_dt)
    /\ Len(requests) < MaxRequests
    /\ \E resp \in Responses(params) :
        /\ resp.ok /\ resp.candles # << >>
        /\ Answered(params, resp)
        /\ LET candles == resp.candles
               last_candle_time == candles[Len(candles)].time
               next_from == [wall |-> fromisoformat(last_candle_time).wall
                                        + timedelta(candle_seconds),
                             off |-> fromisoformat(last_candle_time).off]
           IN /\ all_candles' = all_candles \o candles
              /\ request_count' = request_count + 1
              /\ current_from' = next_from
              /\ IF utc(next_from) >= utc(to_dt)
                 THEN Return(all_candles \o candles)
                 ELSE IF Len(candles) < max_candles /\ utc(chunk_end) >= utc(to_dt)
                 THEN Return(all_candles \o candles)
                 ELSE UNCHANGED << pc, outcome, df >>
    /\ Logged("page")
    /\ UNCHANGED << inputs, first, detect_vars, job_vars, store_vars, lib_vars, strat_vars >>

\* the caller makes the same call again, against the unchanged upstream
Refetch ==
    /\ pc = "done"
    /\ run = 1
    /\ unchanged
    /\ run' = 2
    /\ first_requests' = requests
    /\ first_outcome' = outcome
    /\ first_df' = df
    /\ pc' = "validate"
    /\ current_from' = from_dt
    /\ all_candles' = << >>
    /\ request_count' = 0
    /\ requests' = << >>
    /\ outcome' = "none"
    /\ df' = << >>
    /\ UNCHANGED << inputs, upstream, detect_vars, job_vars, store_vars, lib_vars, strat_vars >>

Next ==
    \/ Validate
    \/ NoRequest
    \/ GetCandlesFails
    \/ GetCandlesEmpty
    \/ GetCandlesPage
    \/ Refetch

Spec == Init /\ [][Next]_vars

----------------------------------------------------------------------------
(* The detector on a growing series *)

FetcherIdle ==
    /\ instrument = "EUR_USD"
    /\ granularity = "D"
    /\ from_date = [wall |-> 0, tz |-> ""]
    /\ to_date = [wall |-> 0, tz |-> ""]
    /\ price_type = "M"
    /\ listing = [ok |-> TRUE, names |-> {"EUR_USD"}]
    /\ windowed = TRUE
    /\ unchanged = TRUE
    /\ argsort_ties = "input_order"
    /\ answers = << >>
    /\ served = 0
    /\ pc = "done"
    /\ current_from = from_dt
    /\ all_candles = << >>
    /\ request_count = 0
    /\ requests = << >>
    /\ outcome = "ok"
    /\ df = << >>
    /\ run = 2
    /\ first_requests = << >>
    /\ first_outcome = "ok"
    /\ first_df = << >>

DetectInit ==
    /\ FetcherIdle
    /\ JobIdle
    /\ StorageIdle
    /\ LibIdle
    /\ StrategyIdle
    /\ bars = << >>
    /\ dc_period \in Periods
    /\ atr_period \in Periods
    /\ last_upper = NaN
    /\ last_lower = NaN
    /\ last_atr = NaN
    /\ signal = NotCalled
    /\ position \in BOOLEAN
    /\ order = NotRun

\* a candle completes; the caller hands the series to detect_signal, and a
\* backtest over the same series reaches its last bar
DetectSignal ==
    /\ Len(bars) < MaxBars
    /\ \E candle \in Candles :
        LET b == Append(bars, candle)
            call == detect_signal(b, dc_period, atr_period)
        IN /\ bars' = b
           /\ signal' = call.result
           /\ last_upper' = call.last_upper
           /\ last_lower' = call.last_lower
           /\ last_atr' = call.last_atr
           /\ order' = next(b, dc_period, atr_period, position)
    /\ UNCHANGED << fetch_vars, dc_period, atr_period, position, job_vars,
                    store_vars, lib_vars, strat_vars >>

DetectNext == DetectSignal

DetectSpec == DetectInit /\ [][DetectNext]_vars


----------------------------------------------------------------------------
(* The scheduled callers: run_daily.py, close_position.py and              *)
(* HistoricalDataRetriever.fetch_multiple_instruments                      *)

\* the public methods of OandaClient (src/src/oanda_client.py)
OandaClient ==
    { "validate_connection", "get_account_info", "get_instruments",
      "get_instrument_details", "get_candles", "get_open_positions",
      "place_market_order" }

Callers == { "run_daily", "close_position", "fetch_multiple_instruments" }
MAJORS == { "EUR_USD", "USD_JPY" }

\* the instrument lists of one to MaxInstruments entries, repeats included
InstrumentLists ==
    UNION { [1..n -> MAJORS] : n \in 1..MaxInstruments }

\* account balances the broker may report
Balances == { -1000, 0, 300, 1000 }

\* fewest complete candles run_instrument hands to detect_signal
\* (50 in the source; scaled down with the series)
min_complete_candles == 2

\* the daily series the retriever may return: rows of [time, complete],
\* oldest first; the candle of the running day is not complete
Rows(flags) == [ i \in 1..Len(flags) |-> [time |-> i, complete |-> flags[i]] ]
FetchedSeries ==
    { Rows(<< >>), Rows(<< TRUE, FALSE >>), Rows(<< TRUE, TRUE, FALSE >>) }

\* a selection that keeps every row
SelectComplete_all(data) == data

RECURSIVE SelectComplete(_)
\* run_daily.py line 54: df[df['complete'] == True]
SelectComplete(data) ==
    IF data = << >> THEN << >>
    ELSE IF data[1].complete THEN << data[1] >> \o SelectComplete(Tail(data))
    ELSE SelectComplete(Tail(data))

\* no series: nothing was fetched, or detect_signal was not called
NoSeries == [given |-> FALSE, rows |-> << >>]
Series(data) == [given |-> TRUE, rows |-> data]

\* what detect_signal may hand to run_instrument: sl_dist is a positive float
Signals ==
    { [side |-> sd, sl_dist |-> [nan |-> FALSE, num |-> 7, den |-> 2],
       entry_price |-> Float(1000)] : sd \in { "buy", "sell" } }

\* int(x) of the quotient n / d, d > 0: towards zero
int(n, d) == IF n >= 0 THEN n \div d ELSE -((-n) \div d)

\* a call on the client that reads
Get(op, instr) ==
    [method |-> "GET", op |-> op, instrument |-> instr, units |-> 0,
     sl |-> NaN, tp |-> NaN]

\* one loop iteration, as the log tells it
Entry(instr, result, sig, request) ==
    [instrument |-> instr, outcome |-> result, signal |-> sig, request |-> request,
     fetched |-> NoSeries, detected |-> NoSeries]

\* the same, with the series that was fetched and the series detect_signal
\* was called on
Seen(entry, fetched, detected) ==
    [entry EXCEPT !.fetched = fetched, !.detected = detected]

\* the next instrument of the for loop
NextInstrument == instruments[Len(processed) + 1]

\* the loop goes on to the next instrument, or the caller returns
Continue(entry) ==
    /\ processed' = Append(processed, entry)
    /\ job_pc' = IF Len(processed) + 1 = Len(instruments) THEN "done" ELSE "loop"

JobInit ==
    /\ FetcherIdle
    /\ DetectorIdle
    /\ StorageIdle
    /\ LibIdle
    /\ StrategyIdle
    /\ caller \in Callers
    /\ instruments \in InstrumentLists
    /\ dry_run \in BOOLEAN
    /\ caller = "fetch_multiple_instruments" => ~dry_run
    /\ balance = 0
    /\ open_instruments = {}
    /\ job_pc = IF caller = "fetch_multiple_instruments" THEN "loop" ELSE "start"
    /\ processed = << >>
    /\ broker = << >>

\* run_daily.py lines 96-101: the client is built and the balance read; a
\* failure here ends the run
RunDailyStart ==
    /\ caller = "run_daily"
    /\ job_pc = "start"
    /\ broker' = Append(broker, Get("get_account_info", ""))
    /\ \/ /\ \E b \in Balances : balance' = b
          /\ job_pc' = "loop"
       \/ /\ job_pc' = "crashed"
          /\ UNCHANGED balance
    /\ UNCHANGED << caller, instruments, dry_run, open_instruments, processed,
                    fetch_vars, detect_vars, store_vars, lib_vars, strat_vars >>

\* lines 64-86 of run_instrument for a signal sig, with the order sent
\* whatever dry_run says
PlaceOrder_always(instr, sig, fetched, detected) ==
    LET risk_amount == [nan |-> FALSE, num |-> balance, den |-> 100]
        units == int(risk_amount.num * sig.sl_dist.den,
                     risk_amount.den * sig.sl_dist.num)
        signed == IF sig.side = "sell" THEN -units ELSE units
        sl == IF sig.side = "buy" THEN Minus(sig.entry_price, sig.sl_dist)
              ELSE PlusTimes(sig.entry_price, 1, sig.sl_dist)
        tp == IF sig.side = "buy" THEN PlusTimes(sig.entry_price, 2, sig.sl_dist)
              ELSE PlusTimes(sig.entry_price, -2, sig.sl_dist)
        request == [method |-> "POST", op |-> "place_market_order",
                    instrument |-> instr, units |-> signed, sl |-> sl, tp |-> tp]
        sent == Append(Append(broker, Get("get_candles", instr)), request)
    IN /\ broker' = sent
       /\ \E result \in { "placed", "error" } :
            Continue(Seen(Entry(instr, result, sig, Len(sent)), fetched, detected))

\* lines 64-86 of run_instrument for a signal sig
PlaceOrder(instr, sig, fetched, detected) ==
    LET risk_amount == [nan |-> FALSE, num |-> balance, den |-> 100]
        units == int(risk_amount.num * sig.sl_dist.den,
                     risk_amount.den * sig.sl_dist.num)
        signed == IF sig.side = "sell" THEN -units ELSE units
        sl == IF sig.side = "buy" THEN Minus(sig.entry_price, sig.sl_dist)
              ELSE PlusTimes(sig.entry_price, 1, sig.sl_dist)
        tp == IF sig.side = "buy" THEN PlusTimes(sig.entry_price, 2, sig.sl_dist)
              ELSE PlusTimes(sig.entry_price, -2, sig.sl_dist)
        request == [method |-> "POST", op |-> "place_market_order",
                    instrument |-> instr, units |-> signed, sl |-> sl, tp |-> tp]
        sent == Append(Append(broker, Get("get_candles", instr)), request)
    IN IF dry_run
       THEN /\ broker' = Append(broker, Get("get_candles", instr))
            /\ Continue(Seen(Entry(instr, "dry run", sig, 0), fetched, detected))
       ELSE /\ broker' = sent
            /\ \E result \in { "placed", "error" } :
                 Continue(Seen(Entry(instr, result, sig, Len(sent)), fetched, detected))

\* the loop of main with the try/except of lines 104-107 left out
RunInstrument_uncaught ==
    /\ caller = "run_daily"
    /\ job_pc = "loop"
    /\ LET instr == NextInstrument
       IN \/ /\ broker' = Append(broker, Get("get_candles", instr))
             /\ processed' = Append(processed, Entry(instr, "error", NoValue, 0))
             /\ job_pc' = "crashed"
          \/ \E data \in FetchedSeries :
                LET fetched == Series(data)
                    df_complete == SelectComplete(data)
                    detected == Series(df_complete)
                IN IF data = << >> \/ Len(df_complete) < min_complete_candles
                   THEN /\ broker' = Append(broker, Get("get_candles", instr))
                        /\ Continue(Seen(Entry(instr, "skipped", NoValue, 0),
                                         fetched, NoSeries))
                   ELSE \/ /\ broker' = Append(broker, Get("get_candles", instr))
                           /\ Continue(Seen(Entry(instr, "no signal", NoValue, 0),
                                            fetched, detected))
                        \/ \E sig \in Signals : PlaceOrder(instr, sig, fetched, detected)
    /\ UNCHANGED << caller, instruments, dry_run, balance, open_instruments,
                    fetch_vars, detect_vars, store_vars, lib_vars, strat_vars >>

\* run_daily.py lines 103-107 with run_instrument (lines 43-86): one
\* instrument of the list.  The fetch raises and main logs the error; or a
\* series is fetched: it is empty, or it has too few complete candles, or
\* detect_signal is called on its complete candles and raises, returns None
\* or returns a signal, for which the order is worked out
RunInstrument ==
    /\ caller = "run_daily"
    /\ job_pc = "loop"
    /\ LET instr == NextInstrument
       IN \/ /\ broker' = Append(broker, Get("get_candles", instr))
             /\ Continue(Entry(instr, "error", NoValue, 0))
          \/ \E data \in FetchedSeries :
                LET fetched == Series(data)
                    df_complete == SelectComplete(data)
                    detected == Series(df_complete)
                IN IF data = << >> \/ Len(df_complete) < min_complete_candles
                   THEN /\ broker' = Append(broker, Get("get_candles", instr))
                        /\ Continue(Seen(Entry(instr, "skipped", NoValue, 0),
                                         fetched, NoSeries))
                   ELSE \/ /\ broker' = Append(broker, Get("get_candles", instr))
                           /\ \E result \in { "error", "no signal" } :
                                Continue(Seen(Entry(instr, result, NoValue, 0),
                                             fetched, detected))
                        \/ \E sig \in Signals : PlaceOrder(instr, sig, fetched, detected)
    /\ UNCHANGED << caller, instruments, dry_run, balance, open_instruments,
                    fetch_vars, detect_vars, store_vars, lib_vars, strat_vars >>

\* close_position.py lines 45-48: the open positions are read; a failure
\* here ends the run
ClosePositionStart ==
    /\ caller = "close_position"
    /\ job_pc = "start"
    /\ broker' = Append(broker, Get("get_open_positions", ""))
    /\ \/ /\ \E open \in SUBSET MAJORS : open_instruments' = open
          /\ job_pc' = "loop"
       \/ /\ job_pc' = "crashed"
          /\ UNCHANGED open_instruments
    /\ UNCHANGED << caller, instruments, dry_run, balance, processed,
                    fetch_vars, detect_vars, store_vars, lib_vars, strat_vars >>

\* close_position.py lines 50-66: one instrument of the list.  The call
\* client.close_position(instrument) names a method the client may not have:
\* the attribute lookup then raises before anything is sent
ClosePosition ==
    /\ caller = "close_position"
    /\ job_pc = "loop"
    /\ LET instr == NextInstrument
           request == [method |-> "PUT", op |-> "close_position",
                       instrument |-> instr, units |-> 0, sl |-> NaN, tp |-> NaN]
       IN IF instr \notin open_instruments
          THEN /\ Continue(Entry(instr, "no open position", NoValue, 0))
               /\ UNCHANGED broker
          ELSE IF dry_run
          THEN /\ Continue(Entry(instr, "dry run", NoValue, 0))
               /\ UNCHANGED broker
          ELSE IF "close_position" \in OandaClient
          THEN /\ broker' = Append(broker, request)
               /\ \E result \in { "closed", "error" } :
                    Continue(Entry(instr, result, NoValue, Len(broker) + 1))
          ELSE /\ Continue(Entry(instr, "error", NoValue, 0))
               /\ UNCHANGED broker
    /\ UNCHANGED << caller, instruments, dry_run, balance, open_instruments,
                    fetch_vars, detect_vars, store_vars, lib_vars, strat_vars >>

\* data_retriever.py lines 181-197: one instrument of the list is fetched,
\* or the fetch raises and the error is logged
FetchMultipleInstruments ==
    /\ caller = "fetch_multiple_instruments"
    /\ job_pc = "loop"
    /\ LET instr == NextInstrument
       IN /\ broker' = Append(broker, Get("get_candles", instr))
          /\ \E result \in { "fetched", "error" } :
               Continue(Entry(instr, result, NoValue, 0))
    /\ UNCHANGED << caller, instruments, dry_run, balance, open_instruments,
                    fetch_vars, detect_vars, store_vars, lib_vars, strat_vars >>

JobNext ==
    \/ RunDailyStart
    \/ RunInstrument
    \/ ClosePositionStart
    \/ ClosePosition
    \/ FetchMultipleInstruments

JobSpec == JobInit /\ [][JobNext]_vars

----------------------------------------------------------------------------
(* DataStorage (src/src/data_storage.py)                                   *)
(*                                                                         *)
(* A path is [base, dir, stem]: <base>/<dir>/<stem>.csv, with dir and stem *)
(* kept as the sequences of their parts between underscores.  A file is    *)
(* the sequence of its lines; a data row is [time, close].                 *)

\* base_path of the DataStorage objects in use
Bases == { "data/historical", "archive" }
StoredInstruments == { << "EUR", "USD" >> }
StoredGranularities == { "M15" }
FromArgs == { "2024-01-01" }
ToArgs == { "2024-12-31T00:00:00Z" }

\* the df arguments: one row, or two rows out of order
Frames ==
    { << [time |-> 1, close |-> 10] >>,
      << [time |-> 2, close |-> 20], [time |-> 1, close |-> 11] >> }

NoRow == [time |-> 0, close |-> 0]
CommentLine(key, value) == [kind |-> "comment", key |-> key, value |-> value, row |-> NoRow]
HeaderLine == [kind |-> "header", key |-> "", value |-> "", row |-> NoRow]
RowLine(r) == [kind |-> "row", key |-> "", value |-> "", row |-> r]

\* lines 278-301: the date of a date string as YYYYMMDD
_format_date_for_filename(date_str) ==
    CASE date_str = "2024-01-01" -> "20240101"
      [] date_str = "2024-12-31T00:00:00Z" -> "20241231"
      [] OTHER -> date_str

\* lines 303-328: the six metadata lines
_generate_metadata(data, instr, gran, from, to) ==
    << CommentLine("Instrument", instr),
       CommentLine("Granularity", gran),
       CommentLine("Date Range", << from, to >>),
       CommentLine("Records", Len(data)),
       CommentLine("Retrieved", "now"),
       CommentLine("Columns", "time, close") >>

\* df.to_csv(f, index=False): the column header, then one line per row
to_csv(data) == << HeaderLine >> \o [ k \in 1..Len(data) |-> RowLine(data[k]) ]

\* pd.read_csv: the first line read is the header, the others are the rows
read_csv(lines) == [ k \in 1..(Len(lines) - 1) |-> lines[k + 1].row ]

\* lines 111-138: read_csv(comment='#') leaves out every comment line
load_from_csv(lines) ==
    read_csv(SelectSeq(lines, LAMBDA l : l.kind # "comment"))

\* backtest_donchian.py lines 40-45: read_csv(skiprows=6)
load_data(lines) == read_csv(SubSeq(lines, 7, Len(lines)))

\* lines 71-109
save_to_csv(fs, base, data, instr, gran, from, to, overwrite) ==
    LET file_path ==
            [base |-> base, dir |-> instr,
             stem |-> instr \o << gran, _format_date_for_filename(from),
                                  _format_date_for_filename(to) >>]
        metadata == _generate_metadata(data, instr, gran, from, to)
    IN IF data = << >>
       THEN [status |-> "ValueError", files |-> fs, path |-> NoPath]
       ELSE IF file_path \in DOMAIN fs /\ ~overwrite
       THEN [status |-> "FileExistsError", files |-> fs, path |-> NoPath]
       ELSE [status |-> "ok",
             files |-> (file_path :> (metadata \o to_csv(data))) @@ fs,
             path |-> file_path]

\* an append that always takes the fallback of lines 199-203
append_to_existing_fallback(fs, base, data, file_path, remove_duplicates, ties) ==
    IF file_path \notin DOMAIN fs
    THEN [status |-> "FileNotFoundError", files |-> fs, path |-> NoPath]
    ELSE LET existing_df == load_from_csv(fs[file_path])
             combined_df == existing_df \o data
             deduped == IF remove_duplicates THEN drop_duplicates(combined_df)
                        ELSE combined_df
             sorted == sort_values(deduped, ties)
         IN [status |-> "ok",
             files |-> [fs EXCEPT ![file_path] = to_csv(sorted)],
             path |-> file_path]

\* lines 160-203
append_to_existing(fs, base, data, file_path, remove_duplicates, ties) ==
    IF file_path \notin DOMAIN fs
    THEN [status |-> "FileNotFoundError", files |-> fs, path |-> NoPath]
    ELSE LET existing_df == load_from_csv(fs[file_path])
             combined_df == existing_df \o data
             deduped == IF remove_duplicates THEN drop_duplicates(combined_df)
                        ELSE combined_df
             sorted == sort_values(deduped, ties)
             parts == file_path.stem
             n == Len(parts)
         IN IF n >= 4
            THEN save_to_csv(fs, base, sorted, SubSeq(parts, 1, n - 3),
                             parts[n - 2], parts[n - 1], parts[n], TRUE)
            ELSE [status |-> "ok",
                  files |-> [fs EXCEPT ![file_path] = to_csv(sorted)],
                  path |-> file_path]

\* the data rows of the file at a path, << >> when there is no such file
RowsAt(fs, path) == IF path \in DOMAIN fs THEN load_from_csv(fs[path]) ELSE << >>

\* the paths a caller may name: every base, every dataset
Paths ==
    { [base |-> b, dir |-> i,
       stem |-> i \o << g, _format_date_for_filename(f), _format_date_for_filename(t) >>] :
        b \in Bases, i \in StoredInstruments, g \in StoredGranularities,
        f \in FromArgs, t \in ToArgs }

StoreInit ==
    /\ FetcherIdle
    /\ DetectorIdle
    /\ JobIdle
    /\ StorageIdle
    /\ LibIdle
    /\ StrategyIdle

\* a call of save_to_csv on one of the DataStorage objects
SaveToCsv ==
    /\ \E base \in Bases, data \in Frames \cup { << >> }, instr \in StoredInstruments,
          gran \in StoredGranularities, from \in FromArgs, to \in ToArgs,
          overwrite \in BOOLEAN :
        LET call == save_to_csv(files, base, data, instr, gran, from, to, overwrite)
        IN /\ files' = call.files
           /\ last' = [op |-> "save_to_csv", status |-> call.status, base |-> base,
                       file_path |-> call.path, written |-> call.path,
                       before |-> << >>, df |-> data, remove_duplicates |-> FALSE]
    /\ UNCHANGED << fetch_vars, detect_vars, job_vars, lib_vars, strat_vars >>

\* a call of append_to_existing on one of the DataStorage objects; the sort
\* of line 181 is the default quicksort, which may leave rows of equal time
\* either way round
AppendToExisting ==
    /\ \E base \in Bases, data \in Frames \cup { << >> }, file_path \in Paths,
          remove_duplicates \in BOOLEAN :
       \E ties \in IF remove_duplicates THEN { "input_order" }
                   ELSE { "input_order", "reversed" } :
        LET call == append_to_existing(files, base, data, file_path,
                                       remove_duplicates, ties)
        IN /\ Len(RowsAt(call.files, call.path)) <= MaxRows
           /\ files' = call.files
           /\ last' = [op |-> "append_to_existing", status |-> call.status,
                       base |-> base, file_path |-> file_path,
                       written |-> call.path,
                       before |-> RowsAt(files, file_path), df |-> data,
                       remove_duplicates |-> remove_duplicates]
    /\ UNCHANGED << fetch_vars, detect_vars, job_vars, lib_vars, strat_vars >>

StoreNext ==
    \/ SaveToCsv
    \/ AppendToExisting

StoreSpec == StoreInit /\ [][StoreNext]_vars

----------------------------------------------------------------------------
(* Position sizing (src/src/utils/position_sizing.py)                      *)
(*                                                                         *)
(* The arguments are exact rationals [none, num, den]; the rounding error  *)
(* of binary floating point in the products and the quotient is not        *)
(* modelled here.                                                          *)

\* lines 40-50: the decimal place of one pip
PIP_CONVERSIONS ==
    [ i \in { "EUR_USD", "GBP_USD", "AUD_USD", "NZD_USD", "USD_JPY", "USD_CHF",
              "USD_CAD", "EUR_GBP", "EUR_JPY" } |->
        IF i \in { "USD_JPY", "EUR_JPY" } THEN 2 ELSE 4 ]

\* lines 53-63: the pip value of a standard lot in USD
PIP_VALUES ==
    [ i \in { "EUR_USD", "GBP_USD", "AUD_USD", "NZD_USD", "USD_JPY", "USD_CHF",
              "USD_CAD", "EUR_GBP", "EUR_JPY" } |->
        IF i \in { "USD_JPY", "EUR_JPY" } THEN Ratio(912, 100)
        ELSE IF i = "USD_CHF" THEN Ratio(1015, 100)
        ELSE Ratio(10, 1) ]

\* lines 124-162 with the default account currency: None stands for the
\* ValueError
get_pip_value(instr) ==
    IF instr \notin DOMAIN PIP_VALUES THEN None ELSE PIP_VALUES[instr]

\* lines 66-76 and 79-90: TRUE when the check passes
validate_risk_percent(risk_percent) ==
    0 < risk_percent.num /\ risk_percent.num <= 100 * risk_percent.den
validate_positive(value) == value.num > 0

\* line 121: account_equity * risk_percent / 100.0
calculate_risk_amount(account_equity, risk_percent) ==
    Ratio(account_equity.num * risk_percent.num,
          account_equity.den * risk_percent.den * 100)

\* a rounding that cuts off after the second decimal
round_down(x, ndigits) ==
    { Ratio((Pow(10, ndigits) * x.num) \div x.den, Pow(10, ndigits)) }

\* round(x, ndigits) of a positive float: the nearest multiple of
\* 10^-ndigits.  Half-way cases go to the even neighbour when the float is
\* exactly half-way, and either way when only the rational is
round(x, ndigits) ==
    LET scaled == Pow(10, ndigits) * x.num
        q == scaled \div x.den
        r == scaled % x.den
    IN IF 2 * r < x.den THEN { Ratio(q, Pow(10, ndigits)) }
       ELSE IF 2 * r > x.den THEN { Ratio(q + 1, Pow(10, ndigits)) }
       ELSE { Ratio(q, Pow(10, ndigits)), Ratio(q + 1, Pow(10, ndigits)) }

\* lines 303-322: the outcomes of a call, as [status, result]
calculate_position_size(account_equity, risk_percent, stop_loss_pips, pip_value, instr) ==
    LET Error == { [status |-> "ValueError", result |-> None] }
        value == IF pip_value.none THEN get_pip_value(instr) ELSE pip_value
        risk_amount == calculate_risk_amount(account_equity, risk_percent)
        position_size ==
            Ratio(risk_amount.num * stop_loss_pips.den * value.den,
                  risk_amount.den * stop_loss_pips.num * value.num)
    IN IF ~validate_positive(account_equity) THEN Error
       ELSE IF ~validate_risk_percent(risk_percent) THEN Error
       ELSE IF ~validate_positive(stop_loss_pips) THEN Error
       ELSE IF pip_value.none /\ instr = "None" THEN Error
       ELSE IF pip_value.none /\ get_pip_value(instr).none THEN Error
       ELSE IF ~pip_value.none /\ ~validate_positive(pip_value) THEN Error
       ELSE { [status |-> "ok", result |-> lots] : lots \in round(position_size, 2) }

Equities == { Ratio(0, 1), Ratio(333, 1), Ratio(10000, 1) }
RiskPercents == { Ratio(0, 1), Ratio(1, 1), Ratio(5, 2), Ratio(101, 1) }
StopPips == { Ratio(0, 1), Ratio(8, 1), Ratio(20, 1) }
PipValueArgs == { None, Ratio(0, 1), Ratio(10, 1) }
InstrumentArgs == { "None", "EUR_USD", "USD_JPY", "XAU_USD" }

SizeInit ==
    /\ FetcherIdle
    /\ DetectorIdle
    /\ JobIdle
    /\ StorageIdle
    /\ LibIdle
    /\ StrategyIdle

\* a call of calculate_position_size
CalculatePositionSize ==
    /\ \E e \in Equities, rp \in RiskPercents, sl \in StopPips,
          pv \in PipValueArgs, i \in InstrumentArgs :
        \E out \in calculate_position_size(e, rp, sl, pv, i) :
            sizing' = [status |-> out.status, account_equity |-> e,
                       risk_percent |-> rp, stop_loss_pips |-> sl,
                       pip_value |-> pv, instrument |-> i, result |-> out.result]
    /\ UNCHANGED << fetch_vars, detect_vars, job_vars, store_vars, conversion, strat_vars >>

SizeNext == CalculatePositionSize

SizeSpec == SizeInit /\ [][SizeNext]_vars

----------------------------------------------------------------------------
(* Pip conversion (src/src/utils/position_sizing.py, lines 165-238)        *)
(*                                                                         *)
(* A float is m * 2^e with a significand m of Precision bits, or zero; a   *)
(* Python float has 53, and every operation rounds its exact result to the *)
(* nearest float, a tie to the even significand.                           *)

Precision == 9
MaxPips == 30

RECURSIVE Nearest(_, _, _)
\* the float nearest to n / d * 2^e, for n >= 0 and d > 0
Nearest(n, d, e) ==
    IF n = 0 THEN [m |-> 0, e |-> 0]
    ELSE IF n >= d * Pow(2, Precision) THEN Nearest(n, 2 * d, e + 1)
    ELSE IF n < d * Pow(2, Precision - 1) THEN Nearest(2 * n, d, e - 1)
    ELSE LET q == n \div d
             r == n % d
             up == 2 * r > d \/ (2 * r = d /\ q % 2 = 1)
         IN IF ~up THEN [m |-> q, e |-> e]
            ELSE IF q + 1 = Pow(2, Precision)
                 THEN [m |-> Pow(2, Precision - 1), e |-> e + 1]
            ELSE [m |-> q + 1, e |-> e]

\* the float a decimal literal n / d denotes
Literal(n, d) == Nearest(n, d, 0)

\* a * b and a / b of floats
Mul(a, b) == Nearest(a.m * b.m, 1, a.e + b.e)
Div(a, b) == Nearest(a.m, b.m, a.e - b.e)

\* lines 193-200; NoFloat stands for the ValueError
pips_to_price(pips, instr) ==
    IF instr \notin DOMAIN PIP_CONVERSIONS THEN NoFloat
    ELSE LET decimal_places == PIP_CONVERSIONS[instr]
             pip_size == Literal(1, Pow(10, decimal_places))
         IN Mul(pips, pip_size)

\* lines 231-238
price_to_pips(price_distance, instr) ==
    IF instr \notin DOMAIN PIP_CONVERSIONS THEN NoFloat
    ELSE LET decimal_places == PIP_CONVERSIONS[instr]
             pip_size == Literal(1, Pow(10, decimal_places))
         IN Div(price_distance, pip_size)

\* the arguments: whole numbers of pips, and the price distances written as
\* decimal literals of the instrument's pip size
PipArgs == { Literal(k, 1) : k \in 1..MaxPips }
DistanceArgs(instr) ==
    IF instr \notin DOMAIN PIP_CONVERSIONS THEN { Literal(2, 1000) }
    ELSE { Literal(k, Pow(10, PIP_CONVERSIONS[instr])) : k \in 1..MaxPips }

Converted(function, instr, input, output, origin) ==
    [status |-> IF output = NoFloat THEN "ValueError" ELSE "ok",
     function |-> function, instrument |-> instr, input |-> input,
     output |-> output, origin |-> origin]

PipInit ==
    /\ FetcherIdle
    /\ DetectorIdle
    /\ JobIdle
    /\ StorageIdle
    /\ LibIdle
    /\ StrategyIdle

\* pips_to_price(pips, instrument)
PipsToPrice ==
    /\ \E i \in InstrumentArgs \ { "None" }, pips \in PipArgs :
        conversion' = Converted("pips_to_price", i, pips, pips_to_price(pips, i), NoFloat)
    /\ UNCHANGED << fetch_vars, detect_vars, job_vars, store_vars, sizing, strat_vars >>

\* price_to_pips(price_distance, instrument)
PriceToPips ==
    /\ \E i \in InstrumentArgs \ { "None" } :
        \E price_distance \in DistanceArgs(i) :
            conversion' = Converted("price_to_pips", i, price_distance,
                                    price_to_pips(price_distance, i), NoFloat)
    /\ UNCHANGED << fetch_vars, detect_vars, job_vars, store_vars, sizing, strat_vars >>

\* price_to_pips(pips_to_price(pips, instrument), instrument)
PriceToPipsBack ==
    /\ conversion.status = "ok"
    /\ conversion.function = "pips_to_price"
    /\ conversion.origin = NoFloat
    /\ conversion' = Converted("price_to_pips", conversion.instrument, conversion.output,
                               price_to_pips(conversion.output, conversion.instrument),
                               conversion.input)
    /\ UNCHANGED << fetch_vars, detect_vars, job_vars, store_vars, sizing, strat_vars >>

\* pips_to_price(price_to_pips(price_distance, instrument), instrument)
PipsToPriceBack ==
    /\ conversion.status = "ok"
    /\ conversion.function = "price_to_pips"
    /\ conversion.origin = NoFloat
    /\ conversion' = Converted("pips_to_price", conversion.instrument, conversion.output,
                               pips_to_price(conversion.output, conversion.instrument),
                               conversion.input)
    /\ UNCHANGED << fetch_vars, detect_vars, job_vars, store_vars, sizing, strat_vars >>

PipNext ==
    \/ PipsToPrice
    \/ PriceToPips
    \/ PriceToPipsBack
    \/ PipsToPriceBack

PipSpec == PipInit /\ [][PipNext]_vars

----------------------------------------------------------------------------
(* RSIMeanReversionMTF under Backtest.run                                  *)
(* (src/src/strategies/rsi_mean_reversion.py, lines 186-299;               *)
(*  src/test_mtf_strategy.py, lines 61-91)                                 *)
(*                                                                         *)
(* Backtest.run calls strategy.init() once and then, bar by bar, lets the  *)
(* broker fill and close orders and calls strategy.next().  An exception   *)
(* of either method ends the run.  Prices are integers; stop_loss and      *)
(* take_profit are kept in tenths.                                         *)

OHLCV == { "Open", "High", "Low", "Close", "Volume" }
ColumnSets == { OHLCV, OHLCV \cup { "H1_EMA200" } }

rsi_oversold == 30
rsi_overbought == 70

\* an init without the check of lines 248-252
RSIMeanReversionMTF_init_unchecked(columns) == "None"

\* lines 211-252: the exception init raises, "None" when it returns
RSIMeanReversionMTF_init(columns) ==
    IF "H1_EMA200" \notin columns THEN "ValueError" ELSE "None"

\* lines 254-299: [error, orders] of one call of next.  bar holds Close[-1],
\* rsi[-1], bb_lower[-1], bb_upper[-1] and H1_EMA200[-1]
RSIMeanReversionMTF_next(columns, bar, pos) ==
    LET price == bar.Close
        Nothing == [error |-> "None", orders |-> << >>]
        h1_ema200 == bar.H1_EMA200
        ema_trend_up == ~h1_ema200.nan /\ price > h1_ema200.num
        ema_trend_down == ~h1_ema200.nan /\ price < h1_ema200.num
        touches_lower_bb == 1000 * price <= bar.bb_lower * 1001
        touches_upper_bb == 1000 * price >= bar.bb_upper * 999
        oversold == ~bar.rsi.nan /\ bar.rsi.num < rsi_oversold
        overbought == ~bar.rsi.nan /\ bar.rsi.num > rsi_overbought
    IN IF pos THEN Nothing
       ELSE IF "H1_EMA200" \notin columns
            THEN [error |-> "AttributeError", orders |-> << >>]
       ELSE IF h1_ema200.nan THEN Nothing
       ELSE IF ema_trend_up /\ touches_lower_bb /\ oversold
            THEN LET sl_distance == Abs(price - bar.bb_lower)
                 IN [error |-> "None",
                     orders |-> << [side |-> "buy",
                                    sl |-> 10 * price - 11 * sl_distance,
                                    tp |-> 10 * price + 11 * sl_distance * risk_reward] >>]
       ELSE IF ema_trend_down /\ touches_upper_bb /\ overbought
            THEN LET sl_distance == Abs(bar.bb_upper - price)
                 IN [error |-> "None",
                     orders |-> << [side |-> "sell",
                                    sl |-> 10 * price + 11 * sl_distance,
                                    tp |-> 10 * price - 11 * sl_distance * risk_reward] >>]
       ELSE Nothing

\* the values of a bar
Bands == { << 9975, 9995 >>, << 9985, 10015 >>, << 10005, 10025 >>, << 10008, 10028 >> }
MtfBars ==
    { [Close |-> c, rsi |-> r, bb_lower |-> b[1], bb_upper |-> b[2], H1_EMA200 |-> h] :
        c \in { 9990, 10010 }, r \in { NaN, Float(20), Float(80) }, b \in Bands,
        h \in { NaN, Float(10000) } }

BacktestInit ==
    /\ FetcherIdle
    /\ DetectorIdle
    /\ JobIdle
    /\ StorageIdle
    /\ LibIdle
    /\ StrategyIdle

\* bt = Backtest(df, RSIMeanReversionMTF, ...); bt.run()
BacktestRun ==
    /\ backtest.pc = "not run"
    /\ \E columns \in ColumnSets, n \in 1..MaxBars :
        backtest' = [NoBacktest EXCEPT !.pc = "init", !.columns = columns, !.bars = n]
    /\ UNCHANGED << fetch_vars, detect_vars, job_vars, store_vars, lib_vars, eod >>

\* strategy.init()
StrategyInit ==
    /\ backtest.pc = "init"
    /\ LET error == RSIMeanReversionMTF_init(backtest.columns)
       IN backtest' = [backtest EXCEPT
                          !.pc = IF error = "None" THEN "next" ELSE "failed",
                          !.error = error]
    /\ UNCHANGED << fetch_vars, detect_vars, job_vars, store_vars, lib_vars, eod >>

\* one bar: the broker fills the pending order and may close the position,
\* then strategy.next()
StrategyNext ==
    /\ backtest.pc = "next"
    /\ backtest.i < backtest.bars
    /\ \E bar \in MtfBars,
          pos \in IF backtest.pending \/ backtest.position THEN BOOLEAN ELSE { FALSE } :
        LET out == RSIMeanReversionMTF_next(backtest.columns, bar, pos)
        IN backtest' = [backtest EXCEPT
                           !.pc = IF out.error = "None" THEN "next" ELSE "failed",
                           !.error = out.error,
                           !.i = @ + 1,
                           !.position = pos,
                           !.pending = out.orders # << >>,
                           !.orders = @ \o out.orders]
    /\ UNCHANGED << fetch_vars, detect_vars, job_vars, store_vars, lib_vars, eod >>

\* the last bar is done: run returns the statistics
BacktestDone ==
    /\ backtest.pc = "next"
    /\ backtest.i = backtest.bars
    /\ backtest' = [backtest EXCEPT !.pc = "completed"]
    /\ UNCHANGED << fetch_vars, detect_vars, job_vars, store_vars, lib_vars, eod >>

BacktestNext ==
    \/ BacktestRun
    \/ StrategyInit
    \/ StrategyNext
    \/ BacktestDone

BacktestSpec == BacktestInit /\ [][BacktestNext]_vars
BacktestFair == BacktestSpec /\ WF_vars(BacktestNext)

----------------------------------------------------------------------------
(* VWAPHMACrossover._should_close_eod                                      *)
(* (src/src/strategies/vwap_hma_crossover.py, lines 170-198)               *)

\* lines 185-198; weekday: Monday = 0, Sunday = 6
_should_close_eod(day_of_week, hour, minute) ==
    IF day_of_week = 4 /\ hour >= 20 /\ minute >= 30 THEN TRUE
    ELSE IF hour >= 23 THEN TRUE
    ELSE FALSE

\* the bar timestamps: every hour of every day of the week, at the minutes
\* of an M15 bar and one minute before and after the half hour
Weekdays == 0..6
Hours == 0..23
Minutes == { 0, 15, 29, 30, 31, 45 }

EodInit ==
    /\ FetcherIdle
    /\ DetectorIdle
    /\ JobIdle
    /\ StorageIdle
    /\ LibIdle
    /\ StrategyIdle

\* a call of self._should_close_eod(current_time)
ShouldCloseEod ==
    /\ \E d \in Weekdays, h \in Hours, mi \in Minutes :
        eod' = [status |-> "returned", weekday |-> d, hour |-> h, minute |-> mi,
                result |-> _should_close_eod(d, h, mi)]
    /\ UNCHANGED << fetch_vars, detect_vars, job_vars, store_vars, lib_vars, backtest >>

EodNext == ShouldCloseEod

EodSpec == EodInit /\ [][EodNext]_vars

----------------------------------------------------------------------------
(* Properties of the fetcher *)

Done == pc = "done"
Succeeded == Done /\ outcome = "ok"

\* the position in all_candles of the last candle carrying time t
LastFetched(t) ==
    CHOOSE i \in 1..Len(all_candles) :
        /\ all_candles[i].time = t
        /\ \A j \in (i + 1)..Len(all_candles) : all_candles[j].time # t

HasDuplicates ==
    \E i, j \in 1..Len(all_candles) : i < j /\ all_candles[i].time = all_candles[j].time

\* C1: the series a successful fetch returns is strictly increasing in time,
\* so no two of its rows share a time, whatever pages the upstream returned
C1_StrictlyIncreasing ==
    Succeeded => \A k \in 1..(Len(df) - 1) : df[k].time < df[k + 1].time

\* a fetch of two pages, out of order and with a repeated time, has returned
C1_Witness ==
    /\ Succeeded
    /\ Len(requests) >= 2
    /\ Len(df) >= 2
    /\ HasDuplicates
    /\ \E i \in 1..(Len(all_candles) - 1) : all_candles[i].time > all_candles[i + 1].time

\* C2: against an upstream that keeps to each requested window, and with
\* from_time <= to_time, the first and the last time of the returned series
\* lie within [from_time, to_time]
C2_WithinRange ==
    (Succeeded /\ windowed /\ utc(from_dt) <= utc(to_dt) /\ df # << >>)
        => /\ utc(from_dt) <= df[1].time
           /\ df[Len(df)].time <= utc(to_dt)

\* C3: of the candles that share a time, the returned series keeps the one
\* fetched last
C3_LaterFetchedWins ==
    Succeeded => \A k \in 1..Len(df) : df[k] = all_candles[LastFetched(df[k].time)]

\* C4: a failed candle request is the last request of the call, and the call
\* fails with its error, returning no candles
C4_FailureAborts ==
    \A i \in 1..Len(requests) :
        requests[i].status = "error"
            => /\ i = Len(requests)
               /\ Done
               /\ outcome = "RequestException"
               /\ df = << >>

\* a request has failed after an earlier page had been received
C4_Witness ==
    /\ Done
    /\ Len(requests) >= 2
    /\ requests[Len(requests)].status = "error"
    /\ all_candles # << >>

C6_EmptyFirstPage ==
    (requests # << >> /\ requests[1].status = "empty")
        => /\ Succeeded
           /\ df = << >>
           /\ Len(requests) = 1

\* the first page came back empty
C6_Witness ==
    /\ requests # << >>
    /\ requests[1].status = "empty"
    /\ Done

\* C7: an unsupported granularity, or an instrument missing from the upstream's
\* list, fails the call with a validation error before any candle request
C7_ValidationFails ==
    (/\ pc # "validate"
     /\ \/ granularity \notin GRANULARITIES
        \/ listing.ok /\ instrument \notin listing.names)
        => /\ Done
           /\ outcome = "ValueError"
           /\ requests = << >>
           /\ df = << >>

\* a call with a supported granularity was refused for its instrument
C7_Witness ==
    /\ Done
    /\ outcome = "ValueError"
    /\ granularity \in GRANULARITIES
    /\ listing.ok
    /\ instrument \notin listing.names

----------------------------------------------------------------------------
(* Properties of the detector *)

Called == signal.status # "not called"
Bar == Len(bars)
LastClose == bars[Bar].close

\* the series with the high and the low of its last bar replaced
WithLastBar(h, l) ==
    [bars EXCEPT ![Bar] = [high |-> h, low |-> l, close |-> LastClose]]

\* (upper - lower) / close >= min_channel_pct
ChannelWideEnough ==
    ~Less([nan |-> FALSE, num |-> last_upper.num - last_lower.num, den |-> LastClose],
          min_channel_pct)

\* (close - upper) / close > min_channel_pct
ClosesFarAboveChannel ==
    Less(min_channel_pct,
         [nan |-> FALSE, num |-> LastClose - last_upper.num, den |-> LastClose])

AtrDefined == ~atr(bars, atr_period).none /\ ~last_atr.nan

\* C8: with fewer than dc_period bars before the last bar, or with ATR
\* undefined for the last bar, detect_signal returns None
C8_NoSignalBeforeWarmUp ==
    (Called /\ (Bar - 1 < dc_period \/ ~AtrDefined)) => signal.status = "None"

\* C9: upper and lower of the last bar are the highest high and the lowest low
\* of exactly the dc_period bars before it; another high or low of the last
\* bar itself changes neither of them, nor whether and which way a signal is
\* given
C9_ChannelExcludesLastBar ==
    Called =>
        /\ Bar - 1 >= dc_period =>
            /\ last_upper = Float(SetMax({ bars[i].high : i \in (Bar - dc_period)..(Bar - 1) }))
            /\ last_lower = Float(SetMin({ bars[i].low : i \in (Bar - dc_period)..(Bar - 1) }))
        /\ \A h, l \in Prices :
            LET other == detect_signal(WithLastBar(h, l), dc_period, atr_period)
            IN /\ other.last_upper = last_upper
               /\ other.last_lower = last_lower
               /\ other.result.status = signal.status
               /\ other.result.side = signal.side

\* the last bar's high lies above, and its low below, the channel of the
\* dc_period bars before it, and an older bar reached higher than the channel
C9_Witness ==
    /\ Called
    /\ Bar - 1 > dc_period
    /\ bars[Bar].high > last_upper.num
    /\ bars[Bar].low < last_lower.num
    /\ bars[1].high > last_upper.num

\* C10, as claimed: a last close above the highest high of the dc_period bars
\* before it by more than min_channel_pct of the price, with ATR defined, gives
\* a buy at the last close
C10_BreakoutBuys ==
    (Called /\ ~last_upper.nan /\ AtrDefined /\ ClosesFarAboveChannel)
        => /\ signal.status = "signal"
           /\ signal.side = "buy"
           /\ signal.entry_price = Float(LastClose)

\* C10, amended: the same, provided the channel of the preceding bars is not
\* narrower than min_channel_pct of the close
C10_WideBreakoutBuys ==
    (Called /\ ~last_upper.nan /\ AtrDefined /\ ClosesFarAboveChannel
        /\ ChannelWideEnough)
        => /\ signal.status = "signal"
           /\ signal.side = "buy"
           /\ signal.entry_price = Float(LastClose)

\* a close far above a channel that is wide enough has been judged
C10_Witness ==
    /\ Called
    /\ ~last_upper.nan
    /\ AtrDefined
    /\ ClosesFarAboveChannel
    /\ ChannelWideEnough
    /\ dc_period = 2

ChannelDefined == ~last_upper.nan /\ ~last_lower.nan

\* C11: when (upper - lower) / close of the last bar is below min_channel_pct
\* no signal is returned, wherever the close lies; the call returns None
\* whenever the series is long enough for ATR to be computed at all
C11_NarrowChannelNoSignal ==
    (Called /\ ChannelDefined /\ ~ChannelWideEnough)
        => /\ signal.status # "signal"
           /\ Bar >= atr_period => signal.status = "None"

\* a close above a channel narrower than the filter allows, with ATR defined
C11_Witness ==
    /\ Called
    /\ ChannelDefined
    /\ AtrDefined
    /\ ~ChannelWideEnough
    /\ LastClose > last_upper.num
    /\ signal.status = "None"

\* C12: past warm-up and the channel-width filter, the call returns buy
\* exactly when close > upper, sell exactly when close < lower and None
\* otherwise, a close on upper or lower included; a signal carries the last
\* close as entry_price and ATR * sl_atr_mult as sl_dist
C12_StrictBreakoutDecides ==
    (Called /\ ChannelDefined /\ AtrDefined /\ ChannelWideEnough)
        => /\ signal.status \in { "signal", "None" }
           /\ (signal.status = "signal" /\ signal.side = "buy")
                <=> LastClose > last_upper.num
           /\ (signal.status = "signal" /\ signal.side = "sell")
                <=> LastClose < last_lower.num
           /\ signal.status = "signal"
                => /\ signal.side \in { "buy", "sell" }
                   /\ signal.entry_price = Float(LastClose)
                   /\ ~signal.sl_dist.nan
                   /\ signal.sl_dist.num * last_atr.den
                        = sl_atr_mult * last_atr.num * signal.sl_dist.den

\* a close exactly on the upper edge of a wide channel was judged
C12_Witness ==
    /\ Called
    /\ ChannelDefined
    /\ AtrDefined
    /\ ChannelWideEnough
    /\ LastClose = last_upper.num
    /\ signal.status = "None"

C14_DetectorMatchesStrategy ==
    (Called /\ ~position)
        => /\ order.status = "buy"
                <=> (signal.status = "signal" /\ signal.side = "buy")
           /\ order.status = "sell"
                <=> (signal.status = "signal" /\ signal.side = "sell")
           /\ order.status = "none" <=> signal.status = "None"
           /\ order.status = "buy"
                => Equal(Minus(Float(LastClose), order.sl), signal.sl_dist)
           /\ order.status = "sell"
                => Equal(Minus(order.sl, Float(LastClose)), signal.sl_dist)

\* the strategy sold on the last bar of a series, out of a two-bar channel
C14_Witness ==
    /\ Called
    /\ ~position
    /\ order.status = "sell"
    /\ dc_period = 2

----------------------------------------------------------------------------
(* Properties of the scheduled callers *)

Failed(k) == processed[k].outcome = "error"

\* C15: the instruments are processed one by one in list order; a failure
\* on one of them is logged and leaves the loop running, so a caller that has
\* returned has processed every list entry exactly once
C15_FailureDoesNotStopLoop ==
    /\ Len(processed) <= Len(instruments)
    /\ \A k \in 1..Len(processed) : processed[k].instrument = instruments[k]
    /\ job_pc = "loop" => Len(processed) < Len(instruments)
    /\ job_pc = "done" => Len(processed) = Len(instruments)
    /\ job_pc = "crashed" => processed = << >>

\* a caller has returned after a failure on its first instrument and a
\* later instrument that did not fail
C15_Witness ==
    /\ job_pc = "done"
    /\ Len(processed) >= 2
    /\ Failed(1)
    /\ ~Failed(Len(processed))

\* C16: in dry-run mode every call made on the client is a read: no
\* place_market_order and no close is ever sent
C16_DryRunSendsNothing ==
    dry_run => \A j \in 1..Len(broker) : broker[j].method = "GET"

\* a dry run has come across a signal or an open position and has returned
C16_Witness ==
    /\ dry_run
    /\ job_pc = "done"
    /\ \E k \in 1..Len(processed) : processed[k].outcome = "dry run"

\* C17: once the closer has run without dry-run, a close request was sent
\* for every listed instrument with an open position, and for no other
C17_OpenPositionsClosed ==
    (caller = "close_position" /\ job_pc = "done" /\ ~dry_run)
        => /\ \A k \in 1..Len(instruments) :
                instruments[k] \in open_instruments
                    => \E j \in 1..Len(broker) :
                        /\ broker[j].op = "close_position"
                        /\ broker[j].instrument = instruments[k]
           /\ \A j \in 1..Len(broker) :
                broker[j].op = "close_position"
                    => broker[j].instrument \in open_instruments

\* C18: every order run_daily sends has |units| * sl_dist <= 0.01 * balance
C18_RiskAtMostOnePercent ==
    \A k \in 1..Len(processed) :
        (caller = "run_daily" /\ processed[k].request # 0)
            => LET sent == broker[processed[k].request]
                   d == processed[k].signal.sl_dist
               IN Abs(sent.units) * d.num * 100 <= balance * d.den

----------------------------------------------------------------------------
(* Properties of the storage *)

Times(rows) == { rows[k].time : k \in 1..Len(rows) }
RowSet(rows) == { rows[k] : k \in 1..Len(rows) }

AppendedWithoutDuplicates ==
    /\ last.op = "append_to_existing"
    /\ last.status = "ok"
    /\ last.remove_duplicates

\* C19: after append_to_existing(df, file_path) with duplicate removal the
\* file at file_path holds one row for every time among its previous rows
\* and the rows of df and no other, in ascending time order, the row of a
\* time that df holds being a row of df
C19_AppendMergesIntoFile ==
    AppendedWithoutDuplicates
        => LET rows == RowsAt(files, last.file_path)
           IN /\ Times(rows) = Times(last.before) \cup Times(last.df)
              /\ \A k \in 1..(Len(rows) - 1) : rows[k].time < rows[k + 1].time
              /\ \A k \in 1..Len(rows) :
                    IF rows[k].time \in Times(last.df)
                    THEN rows[k] \in RowSet(last.df)
                    ELSE rows[k] \in RowSet(last.before)

\* C20: every stored file starts with six metadata comment lines, followed
\* by the column header and the data rows; the record count of the metadata
\* is the number of data rows, and a loader that skips six lines, like one
\* that skips comment lines, reads every row
C20_MetadataHeadsEveryFile ==
    \A path \in DOMAIN files :
        LET lines == files[path]
            n == Len(lines)
        IN /\ n >= 7
           /\ \A k \in 1..6 : lines[k].kind = "comment"
           /\ lines[7].kind = "header"
           /\ \A k \in 8..n : lines[k].kind = "row"
           /\ lines[4].key = "Records"
           /\ lines[4].value = n - 7
           /\ load_data(lines) = [ k \in 1..(n - 7) |-> lines[k + 7].row ]
           /\ load_from_csv(lines) = load_data(lines)

\* a file has been appended to without duplicate removal and rewritten,
\* and holds two rows of one time
C20_Witness ==
    /\ last.op = "append_to_existing"
    /\ last.status = "ok"
    /\ ~last.remove_duplicates
    /\ last.before # << >>
    /\ last.df # << >>
    /\ Len(RowsAt(files, last.written)) > Cardinality(Times(RowsAt(files, last.written)))

----------------------------------------------------------------------------
(* Properties of the position sizing *)

\* the pip value a call works with
PipValueUsed ==
    IF sizing.pip_value.none THEN PIP_VALUES[sizing.instrument] ELSE sizing.pip_value

ValidSizing ==
    /\ sizing.status # "not called"
    /\ sizing.account_equity.num > 0
    /\ sizing.risk_percent.num > 0
    /\ sizing.risk_percent.num <= 100 * sizing.risk_percent.den
    /\ sizing.stop_loss_pips.num > 0
    /\ IF sizing.pip_value.none THEN sizing.instrument \in DOMAIN PIP_VALUES
       ELSE sizing.pip_value.num > 0

\* C21: for every valid input calculate_position_size returns a whole number
\* of hundredths that lies within 0.005 of
\* account_equity * risk_percent / 100 / (stop_loss_pips * pip_value), and
\* (10000, 1.0, 20, 10) gives 0.5
C21_SizeIsRoundedQuotient ==
    ValidSizing =>
        LET n == sizing.account_equity.num * sizing.risk_percent.num
                    * sizing.stop_loss_pips.den * PipValueUsed.den
            d == sizing.account_equity.den * sizing.risk_percent.den * 100
                    * sizing.stop_loss_pips.num * PipValueUsed.num
            lots == sizing.result
        IN /\ sizing.status = "ok"
           /\ lots.den = 100
           /\ 2 * Abs(lots.num * d - 100 * n) <= d
           /\ (/\ sizing.account_equity = Ratio(10000, 1)
               /\ sizing.risk_percent = Ratio(1, 1)
               /\ sizing.stop_loss_pips = Ratio(20, 1)
               /\ sizing.pip_value = Ratio(10, 1)) => lots = Ratio(50, 100)

\* a call whose quotient is not a whole number of hundredths has returned,
\* rounded up
C21_Witness ==
    /\ ValidSizing
    /\ sizing.status = "ok"
    /\ sizing.pip_value.none
    /\ sizing.instrument = "USD_JPY"
    /\ sizing.result.num * sizing.account_equity.den * sizing.risk_percent.den
            * 100 * sizing.stop_loss_pips.num * PipValueUsed.num
        > 100 * sizing.account_equity.num * sizing.risk_percent.num
            * sizing.stop_loss_pips.den * PipValueUsed.den

\* C22: converting pips to a price distance and back gives the pips, and
\* converting a price distance to pips and back gives the price distance,
\* both with ==; 20 pips of EUR_USD are 0.002 and 0.002 is 20.0 pips
C22_ConversionsAreInverse ==
    /\ (conversion.status = "ok" /\ conversion.origin # NoFloat)
        => conversion.output = conversion.origin
    /\ (/\ conversion.function = "pips_to_price"
        /\ conversion.instrument = "EUR_USD"
        /\ conversion.input = Literal(20, 1)) => conversion.output = Literal(2, 1000)
    /\ (/\ conversion.function = "price_to_pips"
        /\ conversion.instrument = "EUR_USD"
        /\ conversion.input = Literal(2, 1000)) => conversion.output = Literal(20, 1)

----------------------------------------------------------------------------
(* Properties of the strategies *)

\* C27: _should_close_eod returns True for every timestamp on a Friday at or
\* after 20:30, and for every timestamp with hour >= 23 on any day
C27_ClosesBeforeWeekendAndNight ==
    eod.status = "returned" =>
        /\ (eod.weekday = 4 /\ 60 * eod.hour + eod.minute >= 60 * 20 + 30) => eod.result
        /\ eod.hour >= 23 => eod.result

\* without the column a run that left init has failed there; with it no
\* call fails
FailsAtInitOnly ==
    /\ ("H1_EMA200" \notin backtest.columns /\ backtest.pc \notin { "not run", "init" })
        => /\ backtest.pc = "failed"
           /\ backtest.error = "ValueError"
           /\ backtest.i = 0
           /\ backtest.orders = << >>
    /\ "H1_EMA200" \in backtest.columns
        => /\ backtest.pc # "failed"
           /\ backtest.pc = "completed" => backtest.i = backtest.bars

----------------------------------------------------------------------------
(* Properties of the pagination *)

\* one bar duration and one full window on the time grid
OneBar == timedelta(candle_seconds)
Window == timedelta(candle_seconds * max_candles)

RECURSIVE CandlesUpTo(_)
\* the number of candles the first k requests of the call brought
CandlesUpTo(k) == IF k = 0 THEN 0 ELSE CandlesUpTo(k - 1) + requests[k].count

\* the times of the candles of the k-th request's page, in page order
TimesOfPage(k) ==
    [ i \in 1..requests[k].count |-> all_candles[CandlesUpTo(k - 1) + i].time ]

\* the time of the last candle of the k-th request's page plus one bar
After(k) == all_candles[CandlesUpTo(k)].time + OneBar

\* C24: every candle request is made from a window [current_from, chunk_end)
\* with current_from < chunk_end <= to_time, chunk_end the earlier of
\* current_from + max_candles bars and to_time, and is sent as the rendering
\* of that window; after a non-empty page the cursor, and so the next
\* request's current_from, is the last candle's time plus one bar
C24_SlidingWindow ==
    \A k \in 1..Len(requests) :
        LET w == requests[k].window
        IN /\ utc(w.from) < utc(w.to)
           /\ utc(w.to) <= utc(to_dt)
           /\ utc(w.to) - utc(w.from) <= Window
           /\ utc(w.to) = utc(to_dt) \/ utc(w.to) - utc(w.from) = Window
           /\ requests[k].params.from = strftime(w.from)
           /\ requests[k].params.to = strftime(w.to)
           /\ requests[k].status = "page" =>
                LET moved == IF k < Len(requests) THEN requests[k + 1].window.from
                             ELSE current_from
                IN moved = [wall |-> After(k), off |-> 0]

\* a call has made a full window's request and then one cut at to_time
C24_Witness ==
    /\ Len(requests) >= 2
    /\ requests[1].status = "page"
    /\ utc(requests[1].window.to) - utc(requests[1].window.from) = Window
    /\ utc(requests[2].window.to) = utc(to_dt)
    /\ utc(requests[2].window.to) - utc(requests[2].window.from) < Window

\* a stop condition holds after the k-th request
Stop(k) ==
    \/ requests[k].status = "empty"
    \/ /\ requests[k].status = "page"
       /\ \/ After(k) >= utc(to_dt)
          \/ /\ requests[k].count < max_candles
             /\ utc(requests[k].window.to) >= utc(to_dt)

\* C25: once a page was empty, or the cursor moved to to_time or beyond, or
\* a page shorter than max_candles came from a window that reached to_time,
\* the call is over and that request was its last
C25_NoRequestAfterStop ==
    \A k \in 1..Len(requests) :
        Stop(k) => k = Len(requests) /\ pc = "done"

\* a call has ended on a short page of the last window, with the cursor
\* still before to_time, after an earlier page
C25_Witness ==
    /\ pc = "done"
    /\ Len(requests) = 2
    /\ requests[2].status = "page"
    /\ requests[2].count < max_candles
    /\ After(2) < utc(to_dt)

\* every candle the upstream returned so far is not earlier than the cursor
\* its request was made from
InOrder ==
    \A k \in 1..Len(requests) :
        \A i \in 1..requests[k].count : TimesOfPage(k)[i] >= utc(requests[k].window.from)

Faithful(Held) ==
    \A k \in 1..Len(requests) :
        LET inside == { t \in Held : requests[k].params.from <= t /\ t < requests[k].params.to }
        IN /\ requests[k].status # "error"
           /\ requests[k].count = IF Cardinality(inside) < max_candles
                                  THEN Cardinality(inside) ELSE max_candles
           /\ \A i \in 1..requests[k].count :
                /\ TimesOfPage(k)[i] \in inside
                /\ Cardinality({ u \in inside : u < TimesOfPage(k)[i] }) = i - 1

\* C29: when every request succeeds, every candle the upstream holds with a
\* time in [from_time, to_time) is in the returned series, whatever the
\* candles the upstream holds
C29_AllCandlesReturned ==
    \A Held \in SUBSET CandleTimes :
        (pc = "done" /\ outcome = "ok" /\ Faithful(Held)) =>
            \A t \in Held :
                (utc(from_dt) <= t /\ t < utc(to_dt)) => \E i \in 1..Len(df) : df[i].time = t

----------------------------------------------------------------------------
(* Properties of run_daily *)

\* C26: run_daily calls detect_signal only on the fetched series without
\* its incomplete candles, and only when at least min_complete_candles of
\* them are left; otherwise the instrument is skipped with no signal and no
\* order
C26_DetectsOnCompleteCandles ==
    caller = "run_daily" =>
        \A k \in 1..Len(processed) :
            LET e == processed[k]
                complete == { i \in 1..Len(e.fetched.rows) : e.fetched.rows[i].complete }
            IN /\ e.detected.given =>
                    /\ \A i \in 1..Len(e.detected.rows) : e.detected.rows[i].complete
                    /\ Len(e.detected.rows) = Cardinality(complete)
                    /\ \A i \in complete :
                         \E j \in 1..Len(e.detected.rows) : e.detected.rows[j] = e.fetched.rows[i]
                    /\ Len(e.detected.rows) >= min_complete_candles
               /\ (e.fetched.given /\ Cardinality(complete) < min_complete_candles) =>
                    /\ ~e.detected.given
                    /\ e.outcome = "skipped"
                    /\ e.signal = NoValue
                    /\ e.request = 0

\* an order has been sent for a series that came with an incomplete candle,
\* and an instrument with one complete candle has been skipped
C26_Witness ==
    /\ caller = "run_daily"
    /\ \E k \in 1..Len(processed) :
        /\ processed[k].request # 0
        /\ Len(processed[k].fetched.rows) > Len(processed[k].detected.rows)
    /\ \E k \in 1..Len(processed) :
        /\ processed[k].outcome = "skipped"
        /\ processed[k].fetched.rows # << >>

\* C30: every order run_daily submits is well-formed: a buy has positive
\* units and sl < entry < tp, a sell has negative units and tp < entry < sl,
\* and the take-profit distance is twice the stop-loss distance
C30_OrdersWellFormed ==
    caller = "run_daily" =>
        \A k \in 1..Len(processed) :
            processed[k].request # 0 =>
                LET sent == broker[processed[k].request]
                    sig == processed[k].signal
                    entry == sig.entry_price
                IN /\ sent.units # 0
                   /\ sig.side = "buy" =>
                        sent.units > 0 /\ Less(sent.sl, entry) /\ Less(entry, sent.tp)
                   /\ sig.side = "sell" =>
                        sent.units < 0 /\ Less(sent.tp, entry) /\ Less(entry, sent.sl)
                   /\ Equal(Minus(sent.tp, entry), PlusTimes(Float(0), -2, Minus(sent.sl, entry)))
====
